---- MODULE Spec2Model ----
(***************************************************************************)
(* State-machine model of scripts/local-wikidata-loader.py: the chunked    *)
(* triple encoding and upload pipeline (load_subset / flush_chunk), the    *)
(* identifier generator, the JSON encoder and the multi-dataset driver     *)
(* (main).  The program is sequential; pc is its position.                 *)
(***************************************************************************)
EXTENDS Integers, Sequences, FiniteSets, TLC

(***************************************************************************)
(* Bounds of the model.                                                    *)
(***************************************************************************)
\* Largest number of records (edges yielded by the edge streams plus entries
\* of the label mappings) the dataset collaborator supplies over one process run.
MaxRecords == 3
\* Largest number of failures of the environment over one process run (a
\* stream or download that raises, an edge with a value json cannot encode,
\* an upload that fails or cannot start).
MaxFaults == 1
\* Largest chunk threshold explored (the code's 250_000, scaled down).
MaxChunkSize == 2
\* The millisecond clock advances at most this far past ClockStart.
MaxTicks == 1
\* Clock value (ms) at process start.
ClockStart == 1023
\* Largest number of direct calls of generate_ulid and encode_graphcol.
MaxCalls == 2

(***************************************************************************)
(* Module-level constants of the script.                                   *)
(***************************************************************************)
R2_BUCKET == "graphdb-lakehouse-prod"
NAMESPACE == "https://wikidata.org/"
ENCODING == "0123456789ABCDEFGHJKMNPQRSTVWXYZ"
\* main's list of subsets, cut to its first two entries to keep the model finite.
subsets == <<"humans", "films">>

(***************************************************************************)
(* Python values that arrive from the dataset collaborator: an int, a str, *)
(* or some other object (e.g. a numpy scalar) that json.dumps rejects.     *)
(***************************************************************************)
PyInt(n) == [k |-> "int", n |-> n, s |-> ""]
PyStr(x) == [k |-> "str", n |-> 0, s |-> x]
PyObj == [k |-> "obj", n |-> 0, s |-> ""]

\* Records (s, r, o) the edge stream may yield.
EdgeValues ==
    { <<PyInt(42), PyStr("P106"), PyInt(36180)>>,
      <<PyStr("Q5"), PyInt(31), PyObj>> }

\* The edge holds a value that json.dumps rejects.
Unencodable(e) == PyObj \in {e[1], e[2], e[3]}

\* The label mappings: dicts of n entries with the distinct keys 1..n, in
\* insertion order, each given as the sequence of its items.
LabelText == PyStr("Douglas Adams")
LabelDicts ==
    { [i \in 1..n |-> <<PyInt(i), LabelText>>] : n \in 0..MaxRecords }

\* The 16 random base-32 digits drawn by generate_ulid.
RandomDigits == { [i \in 1..16 |-> (7 * i) % 32] }

(***************************************************************************)
(* generate_ulid: 10 base-32 digits of the clock, most significant first,  *)
(* then 16 random digits, cut to 26 characters.                            *)
(***************************************************************************)
EncodingChar(d) == SubSeq(ENCODING, d + 1, d + 1)

RECURSIVE TimePart_Reversed(_, _, _)
\* Variant: the digits are appended, least significant first.
TimePart_Reversed(now, n, ulid) ==
    IF n = 0 THEN ulid
    ELSE TimePart_Reversed(now \div 32, n - 1, ulid \o EncodingChar(now % 32))

RECURSIVE TimePart(_, _, _)
TimePart(now, n, ulid) ==
    IF n = 0 THEN ulid
    ELSE TimePart(now \div 32, n - 1, EncodingChar(now % 32) \o ulid)

RECURSIVE RandomPart(_, _, _)
RandomPart(rnd, i, ulid) ==
    IF i > 16 THEN ulid
    ELSE RandomPart(rnd, i + 1, ulid \o EncodingChar(rnd[i]))

generate_ulid(now, rnd) ==
    SubSeq(RandomPart(rnd, 1, TimePart(now, 10, "")), 1, 26)

(***************************************************************************)
(* Triple construction (load_subset, edge loop and label loop).            *)
(***************************************************************************)
EntityIri(v) ==
    IF v.k = "int" THEN PyStr("https://wikidata.org/entity/Q" \o ToString(v.n))
    ELSE v

PredCode(v) ==
    IF v.k = "int" THEN PyStr("P" \o ToString(v.n)) ELSE v

EdgeTriple(e, ts, tx_id) ==
    [s |-> EntityIri(e[1]), p |-> PredCode(e[2]),
     o |-> [t |-> 10, v |-> EntityIri(e[3])], ts |-> ts, tx |-> tx_id]

\* Variant: the label loop stamps its triples with a later clock value.
LabelTriple_OwnTs(item, ts, tx_id) ==
    [s |-> EntityIri(item[1]), p |-> PyStr("label"),
     o |-> [t |-> 5, v |-> item[2]], ts |-> ts + 1, tx |-> tx_id]

LabelTriple(item, ts, tx_id) ==
    [s |-> EntityIri(item[1]), p |-> PyStr("label"),
     o |-> [t |-> 5, v |-> item[2]], ts |-> ts, tx |-> tx_id]

(***************************************************************************)
(* encode_graphcol: json.dumps of {version, namespace, triples} with the   *)
(* default separators; it raises TypeError on a value that is no JSON      *)
(* type.  The strings of the model need no escaping.                       *)
(***************************************************************************)
JsonStr(x) == "\"" \o x \o "\""

JsonVal(v) == IF v.k = "int" THEN ToString(v.n) ELSE JsonStr(v.s)

JsonTriple(t) ==
    "{\"s\": " \o JsonVal(t.s) \o ", \"p\": " \o JsonVal(t.p)
    \o ", \"o\": {\"t\": " \o ToString(t.o.t) \o ", \"v\": " \o JsonVal(t.o.v)
    \o "}, \"ts\": " \o ToString(t.ts) \o ", \"tx\": " \o JsonStr(t.tx) \o "}"

RECURSIVE JsonList_Reversed(_)
\* Variant: the list is written last element first.
JsonList_Reversed(ts) ==
    IF ts = <<>> THEN ""
    ELSE IF Len(ts) = 1 THEN JsonTriple(ts[1])
    ELSE JsonList_Reversed(Tail(ts)) \o ", " \o JsonTriple(ts[1])

RECURSIVE JsonList(_)
JsonList(ts) ==
    IF ts = <<>> THEN ""
    ELSE IF Len(ts) = 1 THEN JsonTriple(ts[1])
    ELSE JsonTriple(ts[1]) \o ", " \o JsonList(Tail(ts))

EncodeRaises(triples) ==
    \E i \in 1..Len(triples) :
        "obj" \in {triples[i].s.k, triples[i].p.k, triples[i].o.v.k}

encode_graphcol(triples, namespace) ==
    "{\"version\": 1, \"namespace\": " \o JsonStr(namespace)
    \o ", \"triples\": [" \o JsonList(triples) \o "]}"

(***************************************************************************)
(* Paths and the upload sink.                                              *)
(***************************************************************************)
RECURSIVE ZeroPad(_, _)
\* f"{n:0{width}d}" applied to the decimal text of n.
ZeroPad(text, width) ==
    IF Len(text) >= width THEN text ELSE ZeroPad("0" \o text, width)

ChunkId(chunk_index) == "chunk_" \o ZeroPad(ToString(chunk_index), 6)

ChunkPath(name, chunk_index) ==
    "datasets/wikidata/" \o name \o "/chunks/" \o ChunkId(chunk_index) \o ".graphcol"

ManifestPath(name) == "datasets/wikidata/" \o name \o "/index.json"

\* What one run of wrangler can do: store the object, exit non-zero without
\* storing it (the exit status is not looked at), or fail to start at all,
\* in which case subprocess.run raises.
UploadOutcomes == {"ok", "fail", "raise"}

\* upload_to_r2 on the bucket `store` (object key -> body).
upload_to_r2(store, body, r2_path, out) ==
    IF out = "ok"
    THEN [k \in DOMAIN store \cup {R2_BUCKET \o "/" \o r2_path} |->
            IF k = R2_BUCKET \o "/" \o r2_path THEN body ELSE store[k]]
    ELSE store

NoStats == [triples |-> 0, chunks |-> 0, bytes |-> 0]

\* One returned call of upload_to_r2, as the sink saw it: the path, the
\* length of the body and whether the object was stored.  `triples` is the
\* buffer the body was encoded from (empty for a manifest), `stats` the
\* manifest's stats (zero for a chunk).
ChunkCall(name, chunk_index, triples, body, out) ==
    [kind |-> "chunk", dataset |-> name, index |-> chunk_index,
     path |-> ChunkPath(name, chunk_index), size |-> Len(body),
     ok |-> (out = "ok"), triples |-> triples, stats |-> NoStats]

ManifestCall(name, stats, body, out) ==
    [kind |-> "manifest", dataset |-> name, index |-> 0,
     path |-> ManifestPath(name), size |-> Len(body),
     ok |-> (out = "ok"), triples |-> <<>>, stats |-> stats]

(***************************************************************************)
(* flush_chunk, as a function of the closure variables it reads.  The      *)
(* result gives their new values, the exception it raised ("" for none)    *)
(* and the upload call it made (at most one).                              *)
(***************************************************************************)
\* Variant: the sequence counter is not advanced.
IndexAfterUpload_Stuck(chunk_index) == chunk_index

IndexAfterUpload(chunk_index) == chunk_index + 1

\* Variant: the buffer is not emptied.
BufferAfterUpload_Keep(triples) == triples

\* triples = [] after the upload call has returned.
BufferAfterUpload(triples) == <<>>

\* Variant: no early return on an empty buffer.
flush_chunk_NoGuard(store, triples, chunk_index, total_bytes, name, out) ==
    IF EncodeRaises(triples)
    THEN [r2 |-> store, triples |-> triples, chunk_index |-> chunk_index,
          total_bytes |-> total_bytes, raised |-> "encoding", calls |-> <<>>]
    ELSE LET encoded == encode_graphcol(triples, NAMESPACE)
         IN IF out = "raise"
            THEN [r2 |-> store, triples |-> triples, chunk_index |-> chunk_index,
                  total_bytes |-> total_bytes + Len(encoded),
                  raised |-> "upload", calls |-> <<>>]
            ELSE [r2 |-> upload_to_r2(store, encoded,
                                      ChunkPath(name, chunk_index), out),
                  triples |-> BufferAfterUpload(triples),
                  chunk_index |-> IndexAfterUpload(chunk_index),
                  total_bytes |-> total_bytes + Len(encoded),
                  raised |-> "",
                  calls |-> <<ChunkCall(name, chunk_index, triples, encoded, out)>>]

\* Variant: the counters are advanced and the buffer emptied before encoding.
flush_chunk_EncodeLate(store, triples, chunk_index, total_bytes, name, out) ==
    IF triples = <<>>
    THEN [r2 |-> store, triples |-> triples, chunk_index |-> chunk_index,
          total_bytes |-> total_bytes, raised |-> "", calls |-> <<>>]
    ELSE IF EncodeRaises(triples)
    THEN [r2 |-> store, triples |-> <<>>, chunk_index |-> chunk_index + 1,
          total_bytes |-> total_bytes, raised |-> "encoding", calls |-> <<>>]
    ELSE LET encoded == encode_graphcol(triples, NAMESPACE)
         IN IF out = "raise"
            THEN [r2 |-> store, triples |-> triples, chunk_index |-> chunk_index,
                  total_bytes |-> total_bytes + Len(encoded),
                  raised |-> "upload", calls |-> <<>>]
            ELSE [r2 |-> upload_to_r2(store, encoded,
                                      ChunkPath(name, chunk_index), out),
                  triples |-> BufferAfterUpload(triples),
                  chunk_index |-> IndexAfterUpload(chunk_index),
                  total_bytes |-> total_bytes + Len(encoded),
                  raised |-> "",
                  calls |-> <<ChunkCall(name, chunk_index, triples, encoded, out)>>]

\* Variant: a chunk whose upload failed stays in the buffer under its index.
flush_chunk_Rebuffer(store, triples, chunk_index, total_bytes, name, out) ==
    IF triples = <<>>
    THEN [r2 |-> store, triples |-> triples, chunk_index |-> chunk_index,
          total_bytes |-> total_bytes, raised |-> "", calls |-> <<>>]
    ELSE IF EncodeRaises(triples)
    THEN [r2 |-> store, triples |-> triples, chunk_index |-> chunk_index,
          total_bytes |-> total_bytes, raised |-> "encoding", calls |-> <<>>]
    ELSE LET encoded == encode_graphcol(triples, NAMESPACE)
         IN IF out = "raise"
            THEN [r2 |-> store, triples |-> triples, chunk_index |-> chunk_index,
                  total_bytes |-> total_bytes + Len(encoded),
                  raised |-> "upload", calls |-> <<>>]
            ELSE [r2 |-> upload_to_r2(store, encoded,
                                      ChunkPath(name, chunk_index), out),
                  triples |-> IF out = "fail" THEN triples
                              ELSE BufferAfterUpload(triples),
                  chunk_index |-> IF out = "fail" THEN chunk_index
                                  ELSE IndexAfterUpload(chunk_index),
                  total_bytes |-> total_bytes + Len(encoded),
                  raised |-> "",
                  calls |-> <<ChunkCall(name, chunk_index, triples, encoded, out)>>]

flush_chunk(store, triples, chunk_index, total_bytes, name, out) ==
    IF triples = <<>>
    THEN [r2 |-> store, triples |-> triples, chunk_index |-> chunk_index,
          total_bytes |-> total_bytes, raised |-> "", calls |-> <<>>]
    ELSE IF EncodeRaises(triples)
    THEN [r2 |-> store, triples |-> triples, chunk_index |-> chunk_index,
          total_bytes |-> total_bytes, raised |-> "encoding", calls |-> <<>>]
    ELSE LET encoded == encode_graphcol(triples, NAMESPACE)
         IN IF out = "raise"
            THEN [r2 |-> store, triples |-> triples, chunk_index |-> chunk_index,
                  total_bytes |-> total_bytes + Len(encoded),
                  raised |-> "upload", calls |-> <<>>]
            ELSE [r2 |-> upload_to_r2(store, encoded,
                                      ChunkPath(name, chunk_index), out),
                  triples |-> BufferAfterUpload(triples),
                  chunk_index |-> IndexAfterUpload(chunk_index),
                  total_bytes |-> total_bytes + Len(encoded),
                  raised |-> "",
                  calls |-> <<ChunkCall(name, chunk_index, triples, encoded, out)>>]

\* Whether flush_chunk, called on this buffer, reaches upload_to_r2.
Uploads(triples) == triples # <<>> /\ ~EncodeRaises(triples)

\* Variant: the threshold test is strict.
ShouldFlush_Strict(triples, chunk_size) == Len(triples) > chunk_size

\* The test that follows every append.
ShouldFlush(triples, chunk_size) == Len(triples) >= chunk_size

\* Variant: the new triple is put in front of the buffer.
AppendTriple_Front(triples, t) == <<t>> \o triples

AppendTriple(triples, t) == Append(triples, t)

(***************************************************************************)
(* The manifest.                                                           *)
(***************************************************************************)
\* Variant: totalSizeBytes is given the chunk count.
ManifestStats_Mixed(total_triples, chunk_index, total_bytes) ==
    [triples |-> total_triples, chunks |-> chunk_index, bytes |-> chunk_index]

ManifestStats(total_triples, chunk_index, total_bytes) ==
    [triples |-> total_triples, chunks |-> chunk_index, bytes |-> total_bytes]

\* json.dumps(manifest, indent=2); createdAt is the clock at second precision.
ManifestJson(name, stats, now) ==
    "{\n  \"version\": 1,\n  \"namespace\": " \o JsonStr(NAMESPACE)
    \o ",\n  \"dataset\": " \o JsonStr("wikidata/" \o name)
    \o ",\n  \"stats\": {\n    \"totalTriples\": " \o ToString(stats.triples)
    \o ",\n    \"totalChunks\": " \o ToString(stats.chunks)
    \o ",\n    \"totalSizeBytes\": " \o ToString(stats.bytes)
    \o "\n  },\n  \"createdAt\": " \o JsonStr(ToString(now \div 1000)) \o "\n}"

(***************************************************************************)
(* What load_subset hands back to main.                                    *)
(***************************************************************************)
\* The dict load_subset returns.
ReturnValue(total_triples, chunk_index, total_bytes) ==
    [triples |-> total_triples, chunks |-> chunk_index, bytes |-> total_bytes]

\* Variant: the handler records what the failed run had counted so far.
ExceptResults_Partial(results, name, stats) ==
    [d \in DOMAIN results \cup {name} |-> IF d = name THEN stats ELSE results[d]]

\* The except clause only prints: results gets no entry for the subset.
ExceptResults(results, name, stats) == results

(***************************************************************************)
(* main's summary.                                                         *)
(***************************************************************************)
RECURSIVE Total(_, _)
\* The grand total over the entries of `results` whose keys are in `names`.
Total(results, names) ==
    IF names = {} THEN NoStats
    ELSE LET n == CHOOSE x \in names : TRUE
             rest == Total(results, names \ {n})
         IN [triples |-> rest.triples + results[n].triples,
             chunks |-> rest.chunks + results[n].chunks,
             bytes |-> rest.bytes + results[n].bytes]

(***************************************************************************)
(* State.                                                                  *)
(***************************************************************************)
VARIABLES
    argv,           \* sys.argv[1], or "all" when absent
    pc,             \* position of the one thread of control
    si,             \* main: index of the subset the loop is at
    results,        \* main: dict subset -> stats of the runs that returned
    total,          \* main: the grand total of the summary
    exc,            \* the exception propagating out of load_subset ("" = none)
    CHUNK_SIZE,     \* module constant CHUNK_SIZE (scaled down)
    clock,          \* time.time() * 1000
    r2,             \* the bucket: object key -> body
    subset_name,    \* load_subset: its argument
    labels,         \* load_subset: items of the label mapping
    edges_read,     \* load_subset: edges taken from the edge stream
    labels_read,    \* load_subset: label items iterated
    tx_id, ts,      \* load_subset: transaction id and timestamp of the run
    triples,        \* load_subset: the buffer
    chunk_index, total_triples, total_bytes,    \* load_subset: counters
    uploads,        \* history: the returned calls of upload_to_r2, in order
    added,          \* history: triples appended in the current run, in order
    attempted,      \* history: subsets load_subset was called with, in order
    generated,      \* history: <<tx_id, ts>> pairs generated in the current run
    ended,          \* history: subset -> how its run ended
    broke,          \* history: subset -> what held when its stream raised
    yielded,        \* environment: edges yielded so far by all edge streams
    handed,         \* environment: label entries handed out so far
    faults,         \* environment: failures so far
    invoked         \* history: direct calls of generate_ulid and encode_graphcol

main_vars == <<argv, si, results, total>>
local_vars == <<subset_name, labels, edges_read, labels_read, tx_id, ts,
                triples, chunk_index, total_triples, total_bytes>>
env_vars == <<CHUNK_SIZE, clock, r2>>
budget_vars == <<yielded, handed, faults>>
hist_vars == <<uploads, added, attempted, generated, ended, broke>>
vars == <<pc, exc, main_vars, local_vars, env_vars, hist_vars, budget_vars,
          invoked>>

SubsetNames == {subsets[i] : i \in 1..Len(subsets)}

NotRun == [how |-> "", stats |-> NoStats]

NotBroken == [raised |-> FALSE, buffered |-> <<>>, calls |-> 0, stored |-> <<>>]

\* No load_subset frame is live: its locals hold nothing.
NoFrame ==
    /\ subset_name' = ""
    /\ labels' = <<>>
    /\ edges_read' = 0
    /\ labels_read' = 0
    /\ tx_id' = ""
    /\ ts' = 0
    /\ triples' = <<>>
    /\ chunk_index' = 0
    /\ total_triples' = 0
    /\ total_bytes' = 0

Init ==
    /\ argv \in {"all", "bogus"} \cup SubsetNames
    /\ pc = "main"
    /\ si = 0
    /\ results = <<>>
    /\ total = NoStats
    /\ exc = ""
    /\ CHUNK_SIZE \in 1..MaxChunkSize
    /\ clock = ClockStart
    /\ r2 = <<>>
    /\ subset_name = ""
    /\ labels = <<>>
    /\ edges_read = 0
    /\ labels_read = 0
    /\ tx_id = ""
    /\ ts = 0
    /\ triples = <<>>
    /\ chunk_index = 0
    /\ total_triples = 0
    /\ total_bytes = 0
    /\ uploads = <<>>
    /\ added = <<>>
    /\ attempted = <<>>
    /\ generated = <<>>
    /\ ended = [d \in SubsetNames |-> NotRun]
    /\ broke = [d \in SubsetNames |-> NotBroken]
    /\ yielded = 0
    /\ handed = 0
    /\ faults = 0
    /\ invoked = <<>>

(***************************************************************************)
(* Control flow of load_subset and main.                                   *)
(***************************************************************************)
\* Variant: a stream error ends the loop like exhaustion does.
OnStreamError_Swallow == "final"

\* An exception raised while iterating a source stream: load_subset has no
\* handler, so it propagates to the caller.
OnStreamError == "raised"

\* Variant: the final flush and the manifest step are repeated.
AfterManifest_Again == "final"

\* After the manifest upload returns, load_subset prints and returns.
AfterManifest == "ret"

\* Variant: the try statement encloses the loop, so the first failure ends it.
AfterExcept_Break(i) == Len(subsets) + 1

\* The except clause sits inside main's for loop: the loop goes on with the
\* subset after index i.
AfterExcept(i) == i + 1

\* A call load_subset(name).
Call(name) ==
    /\ pc' = "load"
    /\ subset_name' = name
    /\ attempted' = Append(attempted, name)
    /\ added' = <<>>
    /\ generated' = <<>>
    /\ UNCHANGED <<labels, edges_read, labels_read, tx_id, ts, triples,
                   chunk_index, total_triples, total_bytes>>

\* How the run of the current subset ended, for the record.
Ending(how) ==
    [how |-> how,
     stats |-> [triples |-> total_triples, chunks |-> chunk_index,
                bytes |-> total_bytes]]

\* What holds at the moment a source stream raises, for the record.
Breaking ==
    [raised |-> TRUE, buffered |-> triples, calls |-> Len(uploads), stored |-> r2]

(***************************************************************************)
(* main, up to the dispatch on the argument.                               *)
(***************************************************************************)
Main ==
    /\ pc = "main"
    /\ IF argv = "all"
       THEN /\ pc' = "loop"
            /\ si' = 1
            /\ results' = <<>>
            /\ UNCHANGED <<local_vars, attempted, added, generated>>
       ELSE IF argv \in SubsetNames
       THEN /\ Call(argv)
            /\ UNCHANGED <<si, results>>
       ELSE /\ pc' = "exit"
            /\ UNCHANGED <<si, results, local_vars, attempted, added, generated>>
    /\ UNCHANGED <<argv, total, exc, env_vars, uploads, ended, broke, budget_vars>>
    /\ UNCHANGED invoked

\* for s in subsets: try: results[s] = load_subset(s)
Loop ==
    /\ pc = "loop"
    /\ IF si <= Len(subsets)
       THEN Call(subsets[si])
       ELSE /\ pc' = "summary"
            /\ UNCHANGED <<local_vars, attempted, added, generated>>
    /\ UNCHANGED <<main_vars, exc, env_vars, uploads, ended, broke, budget_vars>>
    /\ UNCHANGED invoked

(***************************************************************************)
(* load_subset.                                                            *)
(***************************************************************************)
\* Variant: the accumulator is module state, so a run starts from what the
\* run before it left behind.
LoadStart_Carry ==
    /\ pc = "load"
    /\ \E labs \in LabelDicts, rnd \in RandomDigits,
          t1 \in clock..(ClockStart + MaxTicks) :
         \E t2 \in t1..(ClockStart + MaxTicks) :
            /\ yielded + handed + Len(labs) <= MaxRecords
            /\ handed' = handed + Len(labs)
            /\ labels' = labs
            /\ tx_id' = generate_ulid(t1, rnd)
            /\ ts' = t2
            /\ clock' = t2
            /\ generated' = Append(generated, <<generate_ulid(t1, rnd), t2>>)
    /\ edges_read' = 0
    /\ labels_read' = 0
    /\ triples' = IF si > 1 THEN broke[subsets[si - 1]].buffered ELSE <<>>
    /\ chunk_index' = IF si > 1 THEN ended[subsets[si - 1]].stats.chunks ELSE 0
    /\ total_triples' = IF si > 1 THEN ended[subsets[si - 1]].stats.triples ELSE 0
    /\ total_bytes' = IF si > 1 THEN ended[subsets[si - 1]].stats.bytes ELSE 0
    /\ pc' = "edges"
    /\ UNCHANGED <<main_vars, exc, CHUNK_SIZE, r2, subset_name, uploads, added,
                   attempted, ended, broke, yielded, faults>>
    /\ UNCHANGED invoked

\* Download, get_edges, get_labels, generate_ulid, the clock read for ts and
\* the initialisation of the accumulator.
LoadStart ==
    /\ pc = "load"
    /\ \E labs \in LabelDicts, rnd \in RandomDigits,
          t1 \in clock..(ClockStart + MaxTicks) :
         \E t2 \in t1..(ClockStart + MaxTicks) :
            /\ yielded + handed + Len(labs) <= MaxRecords
            /\ handed' = handed + Len(labs)
            /\ labels' = labs
            /\ tx_id' = generate_ulid(t1, rnd)
            /\ ts' = t2
            /\ clock' = t2
            /\ generated' = Append(generated, <<generate_ulid(t1, rnd), t2>>)
    /\ edges_read' = 0
    /\ labels_read' = 0
    /\ triples' = <<>>
    /\ chunk_index' = 0
    /\ total_triples' = 0
    /\ total_bytes' = 0
    /\ pc' = "edges"
    /\ UNCHANGED <<main_vars, exc, CHUNK_SIZE, r2, subset_name, uploads, added,
                   attempted, ended, broke, yielded, faults>>
    /\ UNCHANGED invoked

\* The dataset collaborator fails before any stream exists.
DownloadRaise ==
    /\ pc = "load"
    /\ faults < MaxFaults
    /\ faults' = faults + 1
    /\ pc' = "raised"
    /\ exc' = "download"
    /\ UNCHANGED <<main_vars, env_vars, local_vars, hist_vars, yielded, handed>>
    /\ UNCHANGED invoked

\* The upload outcomes to consider when `buf` is the buffer after an append.
OutcomesFor(buf, flushing) ==
    IF flushing /\ Uploads(buf)
    THEN IF faults < MaxFaults THEN UploadOutcomes ELSE {"ok"}
    ELSE {"none"}

Failed(out) == IF out \in {"fail", "raise"} THEN 1 ELSE 0

\* Variant: the triple total is advanced when a chunk is flushed.
Add_CountAtFlush(t, out, bad) ==
    LET buf == AppendTriple(triples, t)
        f == IF ShouldFlush(buf, CHUNK_SIZE)
             THEN flush_chunk(r2, buf, chunk_index, total_bytes, subset_name, out)
             ELSE [r2 |-> r2, triples |-> buf, chunk_index |-> chunk_index,
                   total_bytes |-> total_bytes, raised |-> "", calls |-> <<>>]
    IN /\ triples' = f.triples
       /\ chunk_index' = f.chunk_index
       /\ total_bytes' = f.total_bytes
       /\ total_triples' = IF f.calls = <<>> THEN total_triples
                           ELSE total_triples + Len(buf)
       /\ r2' = f.r2
       /\ uploads' = uploads \o f.calls
       /\ added' = Append(added, t)
       /\ faults' = faults + Failed(out) + bad
       /\ exc' = f.raised
       /\ pc' = IF f.raised = "" THEN pc ELSE "raised"

\* append, count, and flush when the threshold is reached: the body shared by
\* the edge loop and the label loop.
Add(t, out, bad) ==
    LET buf == AppendTriple(triples, t)
        f == IF ShouldFlush(buf, CHUNK_SIZE)
             THEN flush_chunk(r2, buf, chunk_index, total_bytes, subset_name, out)
             ELSE [r2 |-> r2, triples |-> buf, chunk_index |-> chunk_index,
                   total_bytes |-> total_bytes, raised |-> "", calls |-> <<>>]
    IN /\ triples' = f.triples
       /\ chunk_index' = f.chunk_index
       /\ total_bytes' = f.total_bytes
       /\ total_triples' = total_triples + 1
       /\ r2' = f.r2
       /\ uploads' = uploads \o f.calls
       /\ added' = Append(added, t)
       /\ faults' = faults + Failed(out) + bad
       /\ exc' = f.raised
       /\ pc' = IF f.raised = "" THEN pc ELSE "raised"

\* One iteration of the edge loop.
EdgeStep ==
    /\ pc = "edges"
    /\ yielded + handed < MaxRecords
    /\ yielded' = yielded + 1
    /\ \E e \in EdgeValues :
         LET t == EdgeTriple(e, ts, tx_id)
         IN /\ Unencodable(e) => faults < MaxFaults
            /\ \E out \in OutcomesFor(AppendTriple(triples, t),
                                      ShouldFlush(AppendTriple(triples, t),
                                                  CHUNK_SIZE)) :
                  Add(t, out, IF Unencodable(e) THEN 1 ELSE 0)
    /\ edges_read' = edges_read + 1
    /\ UNCHANGED <<main_vars, CHUNK_SIZE, clock, subset_name, labels,
                   labels_read, tx_id, ts, attempted, generated, ended, broke,
                   handed>>
    /\ UNCHANGED invoked

\* The edge stream is exhausted.
EdgesDone ==
    /\ pc = "edges"
    /\ pc' = "labels"
    /\ UNCHANGED <<main_vars, exc, env_vars, local_vars, hist_vars, budget_vars>>
    /\ UNCHANGED invoked

\* The edge stream raises instead of yielding.
EdgesRaise ==
    /\ pc = "edges"
    /\ faults < MaxFaults
    /\ faults' = faults + 1
    /\ pc' = OnStreamError
    /\ exc' = "source"
    /\ broke' = [broke EXCEPT ![subset_name] = Breaking]
    /\ UNCHANGED <<main_vars, env_vars, local_vars, uploads, added, attempted,
                   generated, ended, yielded, handed>>
    /\ UNCHANGED invoked

\* One iteration of the label loop.
LabelStep ==
    /\ pc = "labels"
    /\ labels_read < Len(labels)
    /\ LET t == LabelTriple(labels[labels_read + 1], ts, tx_id)
       IN \E out \in OutcomesFor(AppendTriple(triples, t),
                                 ShouldFlush(AppendTriple(triples, t), CHUNK_SIZE)) :
              Add(t, out, 0)
    /\ labels_read' = labels_read + 1
    /\ UNCHANGED <<main_vars, CHUNK_SIZE, clock, subset_name, labels,
                   edges_read, tx_id, ts, attempted, generated, ended, broke,
                   yielded, handed>>
    /\ UNCHANGED invoked

\* The label items are exhausted.
LabelsDone ==
    /\ pc = "labels"
    /\ labels_read = Len(labels)
    /\ pc' = "final"
    /\ UNCHANGED <<main_vars, exc, env_vars, local_vars, hist_vars, budget_vars>>
    /\ UNCHANGED invoked

\* The label iteration raises instead of yielding.
LabelsRaise ==
    /\ pc = "labels"
    /\ labels_read < Len(labels)
    /\ faults < MaxFaults
    /\ faults' = faults + 1
    /\ pc' = OnStreamError
    /\ exc' = "source"
    /\ broke' = [broke EXCEPT ![subset_name] = Breaking]
    /\ UNCHANGED <<main_vars, env_vars, local_vars, uploads, added, attempted,
                   generated, ended, yielded, handed>>
    /\ UNCHANGED invoked

\* The final flush_chunk().
FinalFlush ==
    /\ pc = "final"
    /\ \E out \in OutcomesFor(triples, TRUE) :
         LET f == flush_chunk(r2, triples, chunk_index, total_bytes,
                              subset_name, out)
         IN /\ triples' = f.triples
            /\ chunk_index' = f.chunk_index
            /\ total_bytes' = f.total_bytes
            /\ r2' = f.r2
            /\ uploads' = uploads \o f.calls
            /\ faults' = faults + Failed(out)
            /\ exc' = f.raised
            /\ pc' = IF f.raised = "" THEN "manifest" ELSE "raised"
    /\ UNCHANGED <<main_vars, CHUNK_SIZE, clock, subset_name, labels,
                   edges_read, labels_read, tx_id, ts, total_triples, added,
                   attempted, generated, ended, broke, yielded, handed>>
    /\ UNCHANGED invoked

\* Build the manifest, write it and upload it.
UploadManifest ==
    /\ pc = "manifest"
    /\ \E out \in IF faults < MaxFaults THEN UploadOutcomes ELSE {"ok"},
          now \in clock..(ClockStart + MaxTicks) :
         LET stats == ManifestStats(total_triples, chunk_index, total_bytes)
             body == ManifestJson(subset_name, stats, now)
         IN /\ clock' = now
            /\ faults' = faults + Failed(out)
            /\ IF out = "raise"
               THEN /\ pc' = "raised"
                    /\ exc' = "upload"
                    /\ UNCHANGED <<r2, uploads>>
               ELSE /\ pc' = AfterManifest
                    /\ exc' = ""
                    /\ r2' = upload_to_r2(r2, body, ManifestPath(subset_name), out)
                    /\ uploads' = Append(uploads,
                                         ManifestCall(subset_name, stats, body, out))
    /\ UNCHANGED <<main_vars, CHUNK_SIZE, local_vars, added, attempted,
                   generated, ended, broke, yielded, handed>>
    /\ UNCHANGED invoked

(***************************************************************************)
(* Back in main.                                                           *)
(***************************************************************************)
\* load_subset returns its totals; in the loop they are stored in results.
Return ==
    /\ pc = "ret"
    /\ IF argv = "all"
       THEN /\ results' = [d \in DOMAIN results \cup {subset_name} |->
                             IF d = subset_name
                             THEN ReturnValue(total_triples, chunk_index, total_bytes)
                             ELSE results[d]]
            /\ si' = si + 1
            /\ pc' = "loop"
       ELSE /\ pc' = "done"
            /\ UNCHANGED <<si, results>>
    /\ ended' = [ended EXCEPT ![subset_name] = Ending("returned")]
    /\ NoFrame
    /\ UNCHANGED <<argv, total, exc, env_vars, uploads, added, attempted,
                   generated, broke, budget_vars>>
    /\ UNCHANGED invoked

\* except Exception: print and go on; outside the loop nothing catches it.
Except ==
    /\ pc = "raised"
    /\ IF argv = "all"
       THEN /\ si' = AfterExcept(si)
            /\ results' = ExceptResults(results, subset_name,
                                        ReturnValue(total_triples, chunk_index,
                                                    total_bytes))
            /\ pc' = "loop"
            /\ exc' = ""
       ELSE /\ pc' = "crashed"
            /\ UNCHANGED <<si, results, exc>>
    /\ ended' = [ended EXCEPT ![subset_name] = Ending(exc)]
    /\ NoFrame
    /\ UNCHANGED <<argv, total, env_vars, uploads, added, attempted,
                   generated, broke, budget_vars>>
    /\ UNCHANGED invoked

\* The summary: the grand total over results.
Summary ==
    /\ pc = "summary"
    /\ total' = Total(results, DOMAIN results)
    /\ pc' = "done"
    /\ UNCHANGED <<argv, si, results, exc, env_vars, local_vars, hist_vars,
                   budget_vars>>
    /\ UNCHANGED invoked

Next ==
    \/ Main
    \/ Loop
    \/ LoadStart
    \/ DownloadRaise
    \/ EdgeStep
    \/ EdgesDone
    \/ EdgesRaise
    \/ LabelStep
    \/ LabelsDone
    \/ LabelsRaise
    \/ FinalFlush
    \/ UploadManifest
    \/ Return
    \/ Except
    \/ Summary

Spec == Init /\ [][Next]_vars

(***************************************************************************)
(* Direct calls of generate_ulid and encode_graphcol on inputs of their    *)
(* own, outside load_subset.                                               *)
(***************************************************************************)
RECURSIVE Pow32(_)
Pow32(k) == IF k = 0 THEN 1 ELSE 32 * Pow32(k - 1)

\* Values of int(time.time() * 1000): zero, both sides of every digit
\* boundary below 2^31, and the largest value below 2^31.
ClockValues ==
    {0} \cup {Pow32(k) - 1 : k \in 1..6} \cup {Pow32(k) : k \in 0..6}
    \cup {(Pow32(6) - 1) * 2 + 1}

\* Draws of random.randint(0, 31), sixteen per call.
RandomDraws == { [i \in 1..16 |-> 0], [i \in 1..16 |-> 31] }

PureInit ==
    /\ argv = "all"
    /\ pc = "pure"
    /\ si = 0
    /\ results = <<>>
    /\ total = NoStats
    /\ exc = ""
    /\ CHUNK_SIZE = MaxChunkSize
    /\ clock = 0
    /\ r2 = <<>>
    /\ subset_name = ""
    /\ labels = <<>>
    /\ edges_read = 0
    /\ labels_read = 0
    /\ tx_id = ""
    /\ ts = 0
    /\ triples = <<>>
    /\ chunk_index = 0
    /\ total_triples = 0
    /\ total_bytes = 0
    /\ uploads = <<>>
    /\ added = <<>>
    /\ attempted = <<>>
    /\ generated = <<>>
    /\ ended = [d \in SubsetNames |-> NotRun]
    /\ broke = [d \in SubsetNames |-> NotBroken]
    /\ yielded = 0
    /\ handed = 0
    /\ faults = 0
    /\ invoked = <<>>

\* generate_ulid() at a moment when the clock has moved on to `now`.
CallUlid ==
    /\ pc = "pure"
    /\ Len(invoked) < MaxCalls
    /\ \E rnd \in RandomDraws, now \in ClockValues :
         /\ now >= clock
         /\ clock' = now
         /\ invoked' = Append(invoked,
                [fn |-> "generate_ulid", now |-> now, arg |-> rnd,
                 ns |-> "", out |-> generate_ulid(now, rnd),
                 raised |-> FALSE, after |-> rnd])
    /\ UNCHANGED <<pc, exc, main_vars, local_vars, CHUNK_SIZE, r2, hist_vars,
                   budget_vars>>

\* Triples as load_subset builds them: an edge triple (tag 10), label
\* triples (tag 5) with a str and with an int subject, and an edge triple
\* holding a value json.dumps rejects.
SampleTx == generate_ulid(ClockStart, [i \in 1..16 |-> 0])
EdgeSample == EdgeTriple(<<PyInt(42), PyStr("P106"), PyInt(36180)>>, ClockStart, SampleTx)
LabelSample == LabelTriple(<<PyInt(42), LabelText>>, ClockStart, SampleTx)
BadSample == EdgeTriple(<<PyStr("Q5"), PyInt(31), PyObj>>, ClockStart, SampleTx)

\* Arguments of encode_graphcol: lists of triples and a namespace.
TripleLists ==
    { <<>>, <<EdgeSample>>, <<LabelSample>>, <<EdgeSample, LabelSample>>,
      <<LabelSample, EdgeSample>>, <<EdgeSample, BadSample>> }
Namespaces == { NAMESPACE, "urn:test" }

\* encode_graphcol(ts, namespace): it returns the payload or raises; the list
\* it was given is the caller's object, which it does not assign to.
CallEncode ==
    /\ pc = "pure"
    /\ Len(invoked) < MaxCalls
    /\ \E tl \in TripleLists, namespace \in Namespaces :
         invoked' = Append(invoked,
            [fn |-> "encode_graphcol", now |-> clock, arg |-> tl,
             ns |-> namespace,
             out |-> IF EncodeRaises(tl) THEN ""
                     ELSE encode_graphcol(tl, namespace),
             raised |-> EncodeRaises(tl), after |-> tl])
    /\ UNCHANGED <<pc, exc, main_vars, local_vars, env_vars, hist_vars,
                   budget_vars>>

PureNext ==
    \/ CallUlid
    \/ CallEncode

PureSpec == PureInit /\ [][PureNext]_vars

(***************************************************************************)
(* Vocabulary of the properties: views of the upload history.              *)
(***************************************************************************)
IsChunkOf(c, d) == c.kind = "chunk" /\ c.dataset = d
IsManifestOf(c, d) == c.kind = "manifest" /\ c.dataset = d

\* The chunk uploads of dataset d, in the order they were submitted.
ChunkCalls(d) == SelectSeq(uploads, LAMBDA c : IsChunkOf(c, d))
\* The manifest uploads of dataset d.
ManifestCalls(d) == SelectSeq(uploads, LAMBDA c : IsManifestOf(c, d))

RECURSIVE Flatten(_)
\* The triples of a sequence of chunk uploads, concatenated in order.
Flatten(calls) ==
    IF calls = <<>> THEN <<>> ELSE Head(calls).triples \o Flatten(Tail(calls))

RECURSIVE StoredTriples(_)
\* Number of triples in the chunk uploads that succeeded.
StoredTriples(calls) ==
    IF calls = <<>> THEN 0
    ELSE (IF Head(calls).ok THEN Len(Head(calls).triples) ELSE 0)
         + StoredTriples(Tail(calls))

\* The chunk objects of dataset d that the bucket holds.
StoredChunkKeys(d) ==
    { k \in DOMAIN r2 :
        \E i \in 0..Len(uploads) : k = R2_BUCKET \o "/" \o ChunkPath(d, i) }

CeilDiv(a, b) == (a + b - 1) \div b

\* load_subset has run to its return statement for the current subset.
Completed == pc = "ret"

\* A load_subset frame is live and past its initialisation.
InRun == pc \in {"edges", "labels", "final", "manifest", "ret"}

(***************************************************************************)
(* C1.  A dataset run that completes on L triples with threshold C emits   *)
(* exactly ceil(L / C) chunks (none when L = 0); every chunk but the last  *)
(* holds exactly C triples, the last holds between 1 and C, and no chunk   *)
(* that is ever emitted is empty or longer than C.                         *)
(***************************************************************************)
C1_ChunkCount ==
    /\ \A i \in 1..Len(uploads) :
         uploads[i].kind = "chunk" =>
            /\ Len(uploads[i].triples) >= 1
            /\ Len(uploads[i].triples) <= CHUNK_SIZE
    /\ Completed =>
         LET cs == ChunkCalls(subset_name)
         IN /\ Len(cs) = CeilDiv(Len(added), CHUNK_SIZE)
            /\ \A k \in 1..Len(cs) :
                 k < Len(cs) => Len(cs[k].triples) = CHUNK_SIZE

\* A completed run of three triples with threshold two: chunks of 2 and 1.
C1_Witness ==
    /\ Completed
    /\ CHUNK_SIZE = 2
    /\ Len(added) = 3
    /\ Len(ChunkCalls(subset_name)) = 2
    /\ Len(ChunkCalls(subset_name)[2].triples) = 1

(***************************************************************************)
(* C2.  Within one dataset run the k-th chunk submitted to the sink        *)
(* (k = 0, 1, ...) carries index k and the path of index k, so indices     *)
(* have no gaps or repeats and no path is written twice.                   *)
(***************************************************************************)
C2_Indices ==
    /\ \A d \in SubsetNames :
         LET cs == ChunkCalls(d)
         IN \A k \in 1..Len(cs) :
              /\ cs[k].index = k - 1
              /\ cs[k].path = ChunkPath(d, k - 1)
    /\ \A i, j \in 1..Len(uploads) :
         i # j => uploads[i].path # uploads[j].path
    /\ InRun => chunk_index = Len(ChunkCalls(subset_name))

\* Three chunks submitted in one run.
C2_Witness ==
    /\ InRun
    /\ Len(ChunkCalls(subset_name)) = 3
    /\ ChunkCalls(subset_name)[3].path
         = "datasets/wikidata/" \o subset_name \o "/chunks/chunk_000002.graphcol"

(***************************************************************************)
(* C3.  The manifest's totalTriples equals the number of triples in the    *)
(* chunks of its dataset whose upload succeeded (and so equals the input   *)
(* length when no upload failed).                                          *)
(***************************************************************************)
C3_TotalTriplesStored ==
    \A i \in 1..Len(uploads) :
        uploads[i].kind = "manifest" =>
            uploads[i].stats.triples
                = StoredTriples(ChunkCalls(uploads[i].dataset))

(***************************************************************************)
(* C4.  The manifest's totalChunks equals the number of chunk files of     *)
(* its dataset that the sink actually stored: a chunk whose upload failed  *)
(* is not counted.                                                         *)
(***************************************************************************)
C4_TotalChunksStored ==
    \A i \in 1..Len(uploads) :
        uploads[i].kind = "manifest" =>
            uploads[i].stats.chunks
                = Cardinality(StoredChunkKeys(uploads[i].dataset))

(***************************************************************************)
(* C5.  The manifest of a dataset is uploaded at most once, exactly once   *)
(* in a run that completes, and only after every chunk upload of that      *)
(* dataset (the trailing partial chunk included) has returned: no chunk of *)
(* the dataset is uploaded after its manifest, and the manifest counts     *)
(* every chunk submitted.                                                  *)
(***************************************************************************)
C5_ManifestLast ==
    /\ \A d \in SubsetNames :
         /\ Len(ManifestCalls(d)) <= 1
         /\ ended[d].how = "returned" => Len(ManifestCalls(d)) = 1
    /\ Completed =>
         /\ Len(ManifestCalls(subset_name)) = 1
         /\ triples = <<>>
    /\ \A i, j \in 1..Len(uploads) :
         (/\ uploads[i].kind = "manifest"
          /\ uploads[j].dataset = uploads[i].dataset
          /\ i # j)
         => (/\ j < i
             /\ uploads[j].kind = "chunk"
             /\ uploads[i].stats.chunks > uploads[j].index)

\* A completed run whose last chunk was a partial one, then the manifest.
C5_Witness ==
    /\ Completed
    /\ CHUNK_SIZE = 2
    /\ Len(ChunkCalls(subset_name)) = 2
    /\ uploads[Len(uploads)].kind = "manifest"
    /\ uploads[Len(uploads) - 1].kind = "chunk"
    /\ Len(uploads[Len(uploads) - 1].triples) = 1

(***************************************************************************)
(* C6.  For a run that completes, the chunks in ascending index order,     *)
(* concatenated, are exactly the triples added, in the order added (edge   *)
(* triples first, then label triples): nothing lost, duplicated or         *)
(* reordered.  While the run is under way the same holds with the buffer   *)
(* appended.                                                               *)
(***************************************************************************)
C6_Concatenation ==
    /\ InRun =>
         /\ Flatten(ChunkCalls(subset_name)) \o triples = added
         /\ \A i, j \in 1..Len(added) :
              (i < j /\ added[i].o.t = 5) => added[j].o.t = 5
    /\ Completed => Flatten(ChunkCalls(subset_name)) = added

\* A completed run of three triples whose first chunk holds an edge triple
\* and a label triple, and whose second chunk holds the last label triple.
C6_Witness ==
    /\ Completed
    /\ Len(added) = 3
    /\ \E k \in 1..Len(uploads) :
         /\ IsChunkOf(uploads[k], subset_name)
         /\ uploads[k].index = 0
         /\ Len(uploads[k].triples) = 2
         /\ uploads[k].triples[1].o.t = 10
         /\ uploads[k].triples[2].o.t = 5
    /\ Len(ChunkCalls(subset_name)) = 2

(***************************************************************************)
(* C7.  Once the edge or label stream of a dataset has raised, no manifest *)
(* is ever uploaded for that dataset, nothing more is uploaded for it (the *)
(* triples buffered at that moment are never uploaded), and every object   *)
(* stored before the failure stays stored unchanged.                       *)
(***************************************************************************)
C7_StreamFailure ==
    \A d \in SubsetNames :
        broke[d].raised =>
            /\ ManifestCalls(d) = <<>>
            /\ (R2_BUCKET \o "/" \o ManifestPath(d)) \notin DOMAIN r2
            /\ \A i \in 1..Len(uploads) :
                 uploads[i].dataset = d => i <= broke[d].calls
            /\ \A k \in DOMAIN broke[d].stored :
                 k \in DOMAIN r2 /\ r2[k] = broke[d].stored[k]
            /\ ended[d].how \in {"", "source"}

\* The stream of the first dataset raised with a chunk stored and a triple
\* buffered, and the process has since run to its end.
C7_Witness ==
    /\ pc = "done"
    /\ broke[subsets[1]].raised
    /\ broke[subsets[1]].buffered # <<>>
    /\ StoredChunkKeys(subsets[1]) # {}
    /\ ended[subsets[2]].how = "returned"

(***************************************************************************)
(* C8.  With subset "all", load_subset is called for the subsets of the    *)
(* list in list order, each at most once, and a failure of one run never   *)
(* stops the loop: the process never stops short of the end of the         *)
(* summary, every step brings it closer to it (Rank is a natural number    *)
(* that every step lowers), and by the time of the summary every subset    *)
(* has been attempted exactly once.                                        *)
(***************************************************************************)
\* Steps left in the loop the process is in: the streams are finite.
LoopLeft ==
    IF pc = "edges" THEN MaxRecords - yielded - handed
    ELSE IF pc = "labels" THEN Len(labels) - labels_read
    ELSE 0

PcRank ==
    [main |-> 11, loop |-> 10, load |-> 9, edges |-> 8, labels |-> 7,
     final |-> 6, manifest |-> 5, ret |-> 4, raised |-> 3, summary |-> 2,
     done |-> 0, exit |-> 0, crashed |-> 0]

Rank ==
    (Len(subsets) + 1 - si) * 12 * (MaxRecords + 1)
    + PcRank[pc] * (MaxRecords + 1) + LoopLeft

C8_Isolation ==
    /\ [](argv = "all" =>
            /\ Len(attempted) <= Len(subsets)
            /\ attempted = SubSeq(subsets, 1, Len(attempted))
            /\ pc \in {"summary", "done"} => attempted = subsets
            /\ pc # "done" => ENABLED Next
            /\ Rank >= 0)
    /\ [][argv = "all" => Rank' < Rank]_vars

\* The run ended although the first dataset failed and the second returned.
C8_Witness ==
    /\ argv = "all"
    /\ pc = "done"
    /\ ended[subsets[1]].how \in {"source", "encoding", "upload", "download"}
    /\ ended[subsets[2]].how = "returned"
    /\ attempted = subsets

(***************************************************************************)
(* C9.  The grand total of the summary is, field by field, the sum of the  *)
(* totals returned by the runs that returned; a run that failed adds       *)
(* nothing, whatever it had uploaded before failing.                       *)
(***************************************************************************)
Contribution(d) == IF ended[d].how = "returned" THEN ended[d].stats ELSE NoStats

RECURSIVE SumOver(_, _)
SumOver(field, i) ==
    IF i = 0 THEN 0 ELSE Contribution(subsets[i])[field] + SumOver(field, i - 1)

C9_GrandTotal ==
    (argv = "all" /\ pc = "done") =>
        /\ total.triples = SumOver("triples", Len(subsets))
        /\ total.chunks = SumOver("chunks", Len(subsets))
        /\ total.bytes = SumOver("bytes", Len(subsets))
        /\ DOMAIN results = {d \in SubsetNames : ended[d].how = "returned"}

\* One dataset failed after a chunk of it was stored, the other returned.
C9_Witness ==
    /\ argv = "all"
    /\ pc = "done"
    /\ \E d \in SubsetNames, e \in SubsetNames :
         /\ ended[d].how \notin {"", "returned"}
         /\ ended[d].stats.chunks > 0
         /\ StoredChunkKeys(d) # {}
         /\ ended[e].how = "returned"
         /\ ended[e].stats.triples > 0
         /\ total = ended[e].stats

(***************************************************************************)
(* C10.  One transaction id and one timestamp are generated per dataset    *)
(* run, before any triple is added, and every triple of the run, buffered  *)
(* or in a chunk, edge or label, carries exactly that tx and that ts.      *)
(***************************************************************************)
C10_OneTransaction ==
    /\ InRun =>
         /\ generated = << <<tx_id, ts>> >>
         /\ \A i \in 1..Len(added) : added[i].tx = tx_id /\ added[i].ts = ts
         /\ \A i \in 1..Len(triples) : triples[i].tx = tx_id /\ triples[i].ts = ts
         /\ \A i \in 1..Len(uploads) :
              IsChunkOf(uploads[i], subset_name) =>
                 \A k \in 1..Len(uploads[i].triples) :
                    /\ uploads[i].triples[k].tx = tx_id
                    /\ uploads[i].triples[k].ts = ts
    /\ pc = "load" => (generated = <<>> /\ added = <<>>)
    /\ \A i, j \in 1..Len(uploads) :
         (/\ uploads[i].kind = "chunk"
          /\ uploads[j].kind = "chunk"
          /\ uploads[i].dataset = uploads[j].dataset)
         => \A k \in 1..Len(uploads[i].triples), l \in 1..Len(uploads[j].triples) :
               /\ uploads[i].triples[k].tx = uploads[j].triples[l].tx
               /\ uploads[i].triples[k].ts = uploads[j].triples[l].ts

\* A run with an edge chunk and a label chunk, stamped later than the id.
C10_Witness ==
    /\ InRun
    /\ \E i, j \in 1..Len(uploads) :
         /\ IsChunkOf(uploads[i], subset_name)
         /\ IsChunkOf(uploads[j], subset_name)
         /\ uploads[i].triples[1].o.t = 10
         /\ uploads[j].triples[1].o.t = 5
    /\ tx_id = generate_ulid(ClockStart, CHOOSE r \in RandomDigits : TRUE)
    /\ ts > ClockStart

(***************************************************************************)
(* C11.  generate_ulid returns 26 characters; the first ten are the        *)
(* base-32 digits of the clock value, most significant first (the k-th is  *)
(* the digit of weight 32^(10-k)); the alphabet is in ascending            *)
(* character order, so of two identifiers the one generated at the         *)
(* smaller clock value has the smaller prefix in string order.             *)
(***************************************************************************)
\* ord(c) of the characters an identifier can hold.
Ord(c) ==
    IF \E i \in 1..10 : SubSeq("0123456789", i, i) = c
    THEN 47 + (CHOOSE i \in 1..10 : SubSeq("0123456789", i, i) = c)
    ELSE 64 + (CHOOSE i \in 1..26 :
                   SubSeq("ABCDEFGHIJKLMNOPQRSTUVWXYZ", i, i) = c)

RECURSIVE StrLess(_, _)
\* a < b on Python strings: decided by the first position that differs.
StrLess(a, b) ==
    IF b = "" THEN FALSE
    ELSE IF a = "" THEN TRUE
    ELSE IF SubSeq(a, 1, 1) = SubSeq(b, 1, 1)
    THEN StrLess(SubSeq(a, 2, Len(a)), SubSeq(b, 2, Len(b)))
    ELSE Ord(SubSeq(a, 1, 1)) < Ord(SubSeq(b, 1, 1))

\* The value of a character as a base-32 digit of the alphabet.
DigitOf(c) == (CHOOSE i \in 1..32 : SubSeq(ENCODING, i, i) = c) - 1

RECURSIVE Shifted(_, _)
\* now with its n least significant base-32 digits dropped.
Shifted(now, n) == IF n = 0 THEN now ELSE Shifted(now \div 32, n - 1)

UlidCalls == SelectSeq(invoked, LAMBDA c : c.fn = "generate_ulid")

C11_UlidPrefix ==
    /\ \A k \in 1..31 :
         Ord(SubSeq(ENCODING, k, k)) < Ord(SubSeq(ENCODING, k + 1, k + 1))
    /\ \A i \in 1..Len(UlidCalls) :
         /\ Len(UlidCalls[i].out) = 26
         /\ Shifted(UlidCalls[i].now, 10) = 0
         /\ \A k \in 1..10 :
              DigitOf(SubSeq(UlidCalls[i].out, k, k))
                  = Shifted(UlidCalls[i].now, 10 - k) % 32
    /\ \A i, j \in 1..Len(UlidCalls) :
         UlidCalls[i].now < UlidCalls[j].now
         => StrLess(SubSeq(UlidCalls[i].out, 1, 10),
                    SubSeq(UlidCalls[j].out, 1, 10))

\* Two identifiers one millisecond apart, across a carry into the third digit.
C11_Witness ==
    /\ Len(UlidCalls) = 2
    /\ UlidCalls[1].now = 1023
    /\ UlidCalls[2].now = 1024
    /\ SubSeq(UlidCalls[1].out, 1, 10) = "00000000ZZ"
    /\ SubSeq(UlidCalls[2].out, 1, 10) = "0000000100"
    /\ UlidCalls[2].out = "0000000100ZZZZZZZZZZZZZZZZ"

(***************************************************************************)
(* C12.  The payload of encode_graphcol, decoded as JSON, is an object     *)
(* with version 1, the namespace given and the triples given, in input     *)
(* order and equal field for field, for object values of tag 5 and of tag  *)
(* 10; the list passed in is left as it was.                               *)
(***************************************************************************)
\* json.loads, for texts without escapes, floats or literals: the decoded
\* value is [k, v] with k one of "str", "int", "dict" (v: sequence of
\* <<key, value>>) and "list" (v: sequence of values).
Ch(text, i) == IF i >= 1 /\ i <= Len(text) THEN SubSeq(text, i, i) ELSE ""

RECURSIVE SkipWs(_, _)
SkipWs(text, i) ==
    IF Ch(text, i) \in {" ", "\n"} THEN SkipWs(text, i + 1) ELSE i

RECURSIVE StringEnd(_, _)
\* Index of the closing quote of the string whose content starts at i.
StringEnd(text, i) ==
    IF Ch(text, i) \in {"\"", ""} THEN i ELSE StringEnd(text, i + 1)

IsDigit(c) == \E d \in 1..10 : SubSeq("0123456789", d, d) = c
DigitVal(c) == (CHOOSE d \in 1..10 : SubSeq("0123456789", d, d) = c) - 1

RECURSIVE ScanInt(_, _, _)
ScanInt(text, i, acc) ==
    IF IsDigit(Ch(text, i))
    THEN ScanInt(text, i + 1, acc * 10 + DigitVal(Ch(text, i)))
    ELSE [v |-> acc, i |-> i]

RECURSIVE ParseValue(_, _)
RECURSIVE ParseMembers(_, _, _)
RECURSIVE ParseElements(_, _, _)
\* The value that starts at or after i, and the index that follows it.
ParseValue(text, i0) ==
    LET i == SkipWs(text, i0)
        c == Ch(text, i)
    IN IF c = "\""
       THEN LET j == StringEnd(text, i + 1)
            IN [v |-> [k |-> "str",
                       v |-> IF j = i + 1 THEN "" ELSE SubSeq(text, i + 1, j - 1)],
                i |-> j + 1]
       ELSE IF c = "{"
       THEN IF Ch(text, SkipWs(text, i + 1)) = "}"
            THEN [v |-> [k |-> "dict", v |-> <<>>], i |-> SkipWs(text, i + 1) + 1]
            ELSE ParseMembers(text, i + 1, <<>>)
       ELSE IF c = "["
       THEN IF Ch(text, SkipWs(text, i + 1)) = "]"
            THEN [v |-> [k |-> "list", v |-> <<>>], i |-> SkipWs(text, i + 1) + 1]
            ELSE ParseElements(text, i + 1, <<>>)
       ELSE IF c = "-"
       THEN LET r == ScanInt(text, i + 1, 0)
            IN [v |-> [k |-> "int", v |-> 0 - r.v], i |-> r.i]
       ELSE LET r == ScanInt(text, i, 0)
            IN [v |-> [k |-> "int", v |-> r.v], i |-> r.i]

\* The members of an object from the key at i on, up to the closing brace.
ParseMembers(text, i, acc) ==
    LET key == ParseValue(text, i)
        val == ParseValue(text, SkipWs(text, key.i) + 1)
        j == SkipWs(text, val.i)
        items == Append(acc, <<key.v.v, val.v>>)
    IN IF Ch(text, j) = ","
       THEN ParseMembers(text, j + 1, items)
       ELSE [v |-> [k |-> "dict", v |-> items], i |-> j + 1]

\* The elements of an array from i on, up to the closing bracket.
ParseElements(text, i, acc) ==
    LET val == ParseValue(text, i)
        j == SkipWs(text, val.i)
        items == Append(acc, val.v)
    IN IF Ch(text, j) = ","
       THEN ParseElements(text, j + 1, items)
       ELSE [v |-> [k |-> "list", v |-> items], i |-> j + 1]

\* The keys of a decoded object, in document order, and the value of a key.
Keys(obj) == [i \in 1..Len(obj.v) |-> obj.v[i][1]]
Get(obj, key) == obj.v[CHOOSE i \in 1..Len(obj.v) : obj.v[i][1] = key][2]

\* A decoded str or int as the Python value it is.
AsPy(val) == IF val.k = "int" THEN PyInt(val.v) ELSE PyStr(val.v)

\* A decoded triple object as the dict load_subset built.
AsTriple(obj) ==
    [s |-> AsPy(Get(obj, "s")), p |-> AsPy(Get(obj, "p")),
     o |-> [t |-> Get(Get(obj, "o"), "t").v, v |-> AsPy(Get(Get(obj, "o"), "v"))],
     ts |-> Get(obj, "ts").v, tx |-> Get(obj, "tx").v]

\* The decoded object has the shape of a triple.
TripleShaped(obj) ==
    /\ obj.k = "dict"
    /\ Keys(obj) = <<"s", "p", "o", "ts", "tx">>
    /\ Get(obj, "s").k \in {"str", "int"}
    /\ Get(obj, "p").k \in {"str", "int"}
    /\ Get(obj, "o").k = "dict"
    /\ Keys(Get(obj, "o")) = <<"t", "v">>
    /\ Get(Get(obj, "o"), "t").k = "int"
    /\ Get(Get(obj, "o"), "v").k \in {"str", "int"}
    /\ Get(obj, "ts").k = "int"
    /\ Get(obj, "tx").k = "str"

EncodeCalls == SelectSeq(invoked, LAMBDA c : c.fn = "encode_graphcol")

RoundTrip(c) ==
    LET doc == ParseValue(c.out, 1)
    IN /\ doc.i = Len(c.out) + 1
       /\ doc.v.k = "dict"
       /\ Keys(doc.v) = <<"version", "namespace", "triples">>
       /\ Get(doc.v, "version") = [k |-> "int", v |-> 1]
       /\ Get(doc.v, "namespace") = [k |-> "str", v |-> c.ns]
       /\ Get(doc.v, "triples").k = "list"
       /\ Len(Get(doc.v, "triples").v) = Len(c.arg)
       /\ \A i \in 1..Len(c.arg) :
            /\ TripleShaped(Get(doc.v, "triples").v[i])
            /\ AsTriple(Get(doc.v, "triples").v[i]) = c.arg[i]

C12_RoundTrip ==
    \A n \in 1..Len(EncodeCalls) :
        /\ EncodeCalls[n].after = EncodeCalls[n].arg
        /\ ~EncodeCalls[n].raised => RoundTrip(EncodeCalls[n])

\* A payload of an edge triple (tag 10) followed by a label triple (tag 5).
C12_Witness ==
    \E n \in 1..Len(EncodeCalls) :
        /\ ~EncodeCalls[n].raised
        /\ EncodeCalls[n].ns = "urn:test"
        /\ Len(EncodeCalls[n].arg) = 2
        /\ EncodeCalls[n].arg[1].o.t = 10
        /\ EncodeCalls[n].arg[2].o.t = 5
        /\ EncodeCalls[n].arg[2].o.v = PyStr("Douglas Adams")
        /\ AsTriple(Get(ParseValue(EncodeCalls[n].out, 1).v, "triples").v[2])
             = EncodeCalls[n].arg[2]

(***************************************************************************)
(* C13.  flush_chunk on an empty buffer does nothing: no upload, nothing   *)
(* stored, no exception, and chunk index, byte total, triple total and     *)
(* buffer as before.  So the final flush of a run whose number of triples  *)
(* is a multiple of CHUNK_SIZE (zero included) adds no chunk: the run      *)
(* emits exactly that number divided by CHUNK_SIZE.                        *)
(***************************************************************************)
C13_EmptyFlush ==
    /\ [][(pc = "final" /\ triples = <<>>) =>
            /\ pc' = "manifest"
            /\ exc' = ""
            /\ uploads' = uploads
            /\ r2' = r2
            /\ triples' = <<>>
            /\ chunk_index' = chunk_index
            /\ total_bytes' = total_bytes
            /\ total_triples' = total_triples]_vars
    /\ []((pc \in {"manifest", "ret"} /\ Len(added) % CHUNK_SIZE = 0) =>
            /\ Len(ChunkCalls(subset_name)) = Len(added) \div CHUNK_SIZE
            /\ chunk_index = Len(added) \div CHUNK_SIZE)

\* The final flush has run on an empty buffer after two triples with threshold two.
C13_Witness ==
    /\ pc = "manifest"
    /\ CHUNK_SIZE = 2
    /\ Len(added) = 2
    /\ triples = <<>>
    /\ chunk_index = 1
    /\ Len(ChunkCalls(subset_name)) = 1
    /\ uploads[Len(uploads)].kind = "chunk"

(***************************************************************************)
(* C14.  Between the steps of the edge loop and of the label loop, and at  *)
(* the final flush, the buffer holds fewer than CHUNK_SIZE triples, so an  *)
(* append never makes it longer than CHUNK_SIZE; it holds CHUNK_SIZE       *)
(* triples only when the flush that the append triggered has raised.       *)
(***************************************************************************)
C14_BufferBound ==
    /\ Len(triples) <= CHUNK_SIZE
    /\ pc \in {"edges", "labels", "final"} => Len(triples) < CHUNK_SIZE
    /\ pc \in {"manifest", "ret"} => triples = <<>>
    /\ Len(triples) = CHUNK_SIZE => (pc = "raised" /\ exc \in {"encoding", "upload"})

\* With threshold one, the edge loop has flushed one chunk and the label
\* loop two.
C14_Witness ==
    /\ pc = "labels"
    /\ CHUNK_SIZE = 1
    /\ edges_read = 1
    /\ labels_read = 2
    /\ triples = <<>>
    /\ Len(ChunkCalls(subset_name)) = 3
    /\ ChunkCalls(subset_name)[1].triples[1].o.t = 10
    /\ ChunkCalls(subset_name)[3].triples[1].o.t = 5

(***************************************************************************)
(* C15.  When encode_graphcol raises inside flush_chunk, no upload is      *)
(* issued and nothing is stored by that flush, and the accumulator is as   *)
(* it was when the flush began: the buffer holds the same triples (the one *)
(* just appended included) and chunk index and byte total are unchanged.   *)
(***************************************************************************)
C15_EncodingFailure ==
    /\ [][(exc # "encoding" /\ exc' = "encoding") =>
            /\ pc' = "raised"
            /\ uploads' = uploads
            /\ r2' = r2
            /\ chunk_index' = chunk_index
            /\ total_bytes' = total_bytes
            /\ pc = "final" => triples' = triples
            /\ pc \in {"edges", "labels"} =>
                 triples' = Append(triples, added'[Len(added')])]_vars
    /\ []((pc = "raised" /\ exc = "encoding") =>
            /\ EncodeRaises(triples)
            /\ chunk_index = Len(ChunkCalls(subset_name))
            /\ Flatten(ChunkCalls(subset_name)) \o triples = added)

\* The second flush of a run raised in the encoder, after one chunk was stored.
C15_Witness ==
    /\ pc = "raised"
    /\ exc = "encoding"
    /\ chunk_index = 1
    /\ Len(triples) = 1
    /\ triples[1].o.v = PyObj
    /\ Len(uploads) = 1
    /\ total_bytes = uploads[1].size

(***************************************************************************)
(* C16.  When wrangler exits non-zero for a chunk, the step goes on as     *)
(* after a success: no exception, the buffer is emptied, the index moves   *)
(* on, and the run continues where it was.  The chunk is never submitted   *)
(* again: its path is used by that one call only, and the object is never  *)
(* stored.  Nor is anything submitted again after an upload that could not *)
(* be started and so ended the run of its dataset.                         *)
(***************************************************************************)
\* The step has just made a chunk upload call that the sink failed.
FailedChunkStep ==
    /\ Len(uploads') = Len(uploads) + 1
    /\ uploads'[Len(uploads')].kind = "chunk"
    /\ ~uploads'[Len(uploads')].ok

C16_FailedUpload ==
    /\ [][FailedChunkStep =>
            /\ exc' = ""
            /\ pc' = (IF pc = "final" THEN "manifest" ELSE pc)
            /\ triples' = <<>>
            /\ chunk_index' = chunk_index + 1
            /\ r2' = r2]_vars
    /\ [](\A i \in 1..Len(uploads) :
            (uploads[i].kind = "chunk" /\ ~uploads[i].ok) =>
               /\ (R2_BUCKET \o "/" \o uploads[i].path) \notin DOMAIN r2
               /\ \A j \in 1..Len(uploads) :
                    uploads[j].path = uploads[i].path => j = i)
    /\ [](\A d \in SubsetNames :
            ended[d].how = "upload" =>
               /\ (R2_BUCKET \o "/" \o ChunkPath(d, ended[d].stats.chunks))
                     \notin DOMAIN r2
               /\ (R2_BUCKET \o "/" \o ManifestPath(d)) \notin DOMAIN r2)

\* The first chunk of a run failed; the run went on to store a second chunk
\* and its manifest and returned.
C16_Witness ==
    /\ Completed
    /\ Len(ChunkCalls(subset_name)) = 2
    /\ ~ChunkCalls(subset_name)[1].ok
    /\ ChunkCalls(subset_name)[2].ok
    /\ (R2_BUCKET \o "/" \o ChunkPath(subset_name, 1)) \in DOMAIN r2
    /\ (R2_BUCKET \o "/" \o ManifestPath(subset_name)) \in DOMAIN r2

(***************************************************************************)
(* C17.  While a dataset run is between flushes, total_bytes is the sum of *)
(* the lengths of the encoded payloads of the chunks submitted so far      *)
(* (chunks 0 .. chunk_index - 1), and the totalSizeBytes of a manifest is  *)
(* that sum over all chunks of its dataset.                                *)
(***************************************************************************)
RECURSIVE SumSizes(_)
\* Sum of the payload lengths of a sequence of chunk uploads.
SumSizes(cs) ==
    IF cs = <<>> THEN 0
    ELSE Len(encode_graphcol(Head(cs).triples, NAMESPACE)) + SumSizes(Tail(cs))

C17_TotalBytes ==
    /\ \A i \in 1..Len(uploads) :
         uploads[i].kind = "chunk" =>
            uploads[i].size = Len(encode_graphcol(uploads[i].triples, NAMESPACE))
    /\ InRun =>
         /\ total_bytes = SumSizes(ChunkCalls(subset_name))
         /\ Len(ChunkCalls(subset_name)) = chunk_index
    /\ \A i \in 1..Len(uploads) :
         uploads[i].kind = "manifest" =>
            uploads[i].stats.bytes = SumSizes(ChunkCalls(uploads[i].dataset))

\* A completed run of two chunks of different sizes; the stored manifest,
\* decoded, gives their sum as totalSizeBytes.
C17_Witness ==
    /\ Completed
    /\ Len(ChunkCalls(subset_name)) = 2
    /\ ChunkCalls(subset_name)[1].size > ChunkCalls(subset_name)[2].size
    /\ ChunkCalls(subset_name)[2].size > 0
    /\ (R2_BUCKET \o "/" \o ManifestPath(subset_name)) \in DOMAIN r2
    /\ Get(Get(ParseValue(r2[R2_BUCKET \o "/" \o ManifestPath(subset_name)], 1).v,
               "stats"), "totalSizeBytes").v
         = ChunkCalls(subset_name)[1].size + ChunkCalls(subset_name)[2].size
    /\ total_bytes
         = ChunkCalls(subset_name)[1].size + ChunkCalls(subset_name)[2].size

(***************************************************************************)
(* C18.  Throughout a dataset run total_triples is the number of triples   *)
(* in the chunks submitted so far plus the length of the buffer: a triple  *)
(* is counted when it is appended, not when its chunk is flushed.  So      *)
(* total_triples is the number of triples in the chunks exactly when the   *)
(* buffer is empty.                                                        *)
(***************************************************************************)
C18_TripleTotal ==
    (InRun \/ (pc = "raised" /\ exc # "download")) =>
        /\ total_triples = Len(Flatten(ChunkCalls(subset_name))) + Len(triples)
        /\ total_triples = Len(added)
        /\ (total_triples = Len(Flatten(ChunkCalls(subset_name))))
             <=> (triples = <<>>)

\* Three triples counted: two in a chunk, one still buffered.
C18_Witness ==
    /\ pc = "labels"
    /\ CHUNK_SIZE = 2
    /\ total_triples = 3
    /\ Len(triples) = 1
    /\ Len(ChunkCalls(subset_name)) = 1
    /\ Len(ChunkCalls(subset_name)[1].triples) = 2

(***************************************************************************)
(* C19.  Every dataset run starts with an empty buffer, chunk index 0 and  *)
(* zero totals, whatever the runs before it left behind.  So the chunks of *)
(* a dataset hold the triples added in its own run and no others, and its  *)
(* manifest and returned totals count its own triples and chunks only.     *)
(***************************************************************************)
C19_PrivateState ==
    /\ [][(pc = "load" /\ pc' = "edges") =>
            /\ triples' = <<>>
            /\ chunk_index' = 0
            /\ total_triples' = 0
            /\ total_bytes' = 0]_vars
    /\ [](InRun =>
            /\ Len(Flatten(ChunkCalls(subset_name))) + Len(triples) = Len(added)
            /\ \A k \in 1..Len(ChunkCalls(subset_name)) :
                 \A n \in 1..Len(ChunkCalls(subset_name)[k].triples) :
                    \E a \in 1..Len(added) :
                       added[a] = ChunkCalls(subset_name)[k].triples[n])
    /\ [](\A i \in 1..Len(uploads) :
            uploads[i].kind = "manifest" =>
               /\ uploads[i].stats.triples
                    = Len(Flatten(ChunkCalls(uploads[i].dataset)))
               /\ uploads[i].stats.chunks = Len(ChunkCalls(uploads[i].dataset)))
    /\ [](\A d \in SubsetNames :
            ended[d].how = "returned" =>
               /\ ended[d].stats.triples = Len(Flatten(ChunkCalls(d)))
               /\ ended[d].stats.chunks = Len(ChunkCalls(d)))

\* The first run failed with a triple still buffered; the second run has
\* completed with totals that count its own triples only.
C19_Witness ==
    /\ Completed
    /\ subset_name = subsets[2]
    /\ broke[subsets[1]].raised
    /\ broke[subsets[1]].buffered # <<>>
    /\ Len(added) = 2
    /\ total_triples = 2
    /\ chunk_index = Len(ChunkCalls(subsets[2]))
    /\ ManifestCalls(subsets[2])[1].stats.triples = 2

====
